---- MODULE Spec2Model ----
(***************************************************************************)
(* A model of financial_ratios.py, a Streamlit dashboard.  The script is   *)
(* re-executed from its first line on every user interaction; the three    *)
(* loaders are memoised by @st.cache_data; the page chosen in the sidebar  *)
(* decides which branch of the script renders.                             *)
(*                                                                         *)
(* A DataFrame is [columns |-> sequence of names, rows |-> sequence of     *)
(* functions from the column names to cells].  A numeric cell is <<v>>, a  *)
(* missing one (NaN) is <<>>.  A date in a csv file is the pair            *)
(* <<year, month>>; a parsed Timestamp is the number of months since year  *)
(* 0.  A mean is kept exact as <<sum, count>>.                             *)
(***************************************************************************)
EXTENDS Integers, Sequences, FiniteSets, TLC

VARIABLES
    file,            \* the three csv files on disk (never written by the program)
    observed,        \* the installed pandas' default of groupby(observed=...)
    cache,           \* st.cache_data: per loader, the memoised return value
    reads,           \* per loader, how often pd.read_csv has run in the process
    selected_page,   \* the sidebar radio
    dataset,         \* selectbox "Select Dataset"
    column,          \* selectbox "Select Metric to Visualize"
    time_agg,        \* selectbox "Time Aggregation"
    financial_df,    \* module-level variables as the last run left them
    commodities_df,
    sentiment_df,
    fault,           \* the exception that ended the last run, if any
    st_errors,       \* st.error messages shown by the last run
    st_warnings,     \* st.warning messages shown by the last run
    rendered,        \* kinds of element (cards, charts, tables) the last run drew
    numeric_options, \* the options the metric selectbox offered in the last run
    agg_df,          \* the aggregated table the last run charted
    filtered_df,     \* the table the last run aggregated
    visitedFiltered, \* history: some earlier or the current run rendered the filtered page
    sentiment_col,   \* the score column the News Sentiments page resolved ("" is None)
    latest_date,     \* the "Latest: <date>" label of the last run's dashboard
    changes,         \* per measure, the latest/previous/change/percent the last run computed
    card_args,       \* the arguments of the last create_metric_card call
    card             \* what that call put on the card

vars == <<file, observed, cache, reads, selected_page, dataset, column, time_agg,
          financial_df, commodities_df, sentiment_df, fault, st_errors,
          st_warnings, rendered, numeric_options, agg_df, filtered_df,
          visitedFiltered, sentiment_col, latest_date, changes, card_args, card>>

\* ------------------------------------------------------------------ bounds

\* Longest financial file, in rows; the commodities file has one row fewer.
MaxRows == 2
\* Most columns of a sentiment file.
MaxSentimentCols == 2
\* pd.read_csv calls per file after which the model stops following the process.
MaxReads == 3

\* ------------------------------------------------------------------ tables

NaN == <<>>

EmptyDataFrame == [columns |-> <<>>, rows |-> <<>>]

\* DataFrame.empty: any axis of length 0
IsEmpty(df) == Len(df.columns) = 0 \/ Len(df.rows) = 0

ColumnSet(df) == {df.columns[i] : i \in 1..Len(df.columns)}

\* DataFrame.rename(columns=map): names in the map change, the others stay, the
\* cells stay with their column
Renamed(map, c) == IF c \in DOMAIN map THEN map[c] ELSE c

\* No renaming at all
rename_nothing(df, map) == df

rename(df, map) ==
    [columns |-> [i \in 1..Len(df.columns) |-> Renamed(map, df.columns[i])],
     rows    |-> [r \in 1..Len(df.rows) |->
                    [c \in {Renamed(map, d) : d \in ColumnSet(df)} |->
                        df.rows[r][CHOOSE d \in ColumnSet(df) : Renamed(map, d) = c]]]]

\* pd.to_datetime on a date column: <<year, month>> becomes a Timestamp
to_datetime(d) == d[1] * 12 + (d[2] - 1)

parse_dates(df, c) ==
    [df EXCEPT !.rows = [r \in 1..Len(df.rows) |->
                            [df.rows[r] EXCEPT ![c] = to_datetime(df.rows[r][c])]]]

\* Series.dt.year, Series.dt.month
dt_year(t) == t \div 12
dt_month(t) == (t % 12) + 1

\* df[c] = scalar: a new last column, or an existing column overwritten
assign_scalar(df, c, v) ==
    [columns |-> IF c \in ColumnSet(df) THEN df.columns ELSE Append(df.columns, c),
     rows    |-> [r \in 1..Len(df.rows) |->
                    [d \in ColumnSet(df) \cup {c} |-> IF d = c THEN v ELSE df.rows[r][d]]]]

\* ------------------------------------------------------------------ loaders

FinancialRenameMap == ("Shareholder's Equity" :> "Shareholders_Equity")

CommoditiesRenameMap ==
    ("CPIAUCSL" :> "CPI") @@ ("WTISPLC" :> "Oil") @@ ("PCOPPUSDM" :> "Copper")
        @@ ("GDP" :> "GDP")

NoException == ""

Returned(v, msgs) == [exc |-> NoException, value |-> v, msgs |-> msgs]
Raised(e) == [exc |-> e, value |-> EmptyDataFrame, msgs |-> {}]

\* pd.read_csv: the table in the file, or FileNotFoundError
read_csv(f) ==
    IF f.exists THEN Returned([columns |-> f.columns, rows |-> f.rows], {})
    ELSE Raised("FileNotFoundError")

\* The financial loader without its except clause.
load_financial_data_no_except(f) ==
    LET got == read_csv(f) IN
    IF got.exc # NoException THEN Raised(got.exc)
    ELSE IF "Date" \notin ColumnSet(got.value) THEN Raised("KeyError")
    ELSE Returned(rename(parse_dates(got.value, "Date"), FinancialRenameMap), {})

\* data['Date'] of a file without that column raises KeyError, which the except
\* clause (FileNotFoundError only) does not catch.
load_financial_data(f) ==
    LET got == read_csv(f) IN
    IF got.exc = "FileNotFoundError"
    THEN Returned(EmptyDataFrame, {"Financial data file not found"})
    ELSE IF "Date" \notin ColumnSet(got.value) THEN Raised("KeyError")
    ELSE Returned(rename(parse_dates(got.value, "Date"), FinancialRenameMap), {})

load_commodities_data(f) ==
    LET got == read_csv(f) IN
    IF got.exc = "FileNotFoundError"
    THEN Returned(EmptyDataFrame, {"Commodities data file not found"})
    ELSE IF "Date" \notin ColumnSet(got.value) THEN Raised("KeyError")
    ELSE Returned(rename(parse_dates(got.value, "Date"), CommoditiesRenameMap), {})

load_sentiment_data(f) ==
    LET got == read_csv(f) IN
    IF got.exc = "FileNotFoundError"
    THEN Returned(EmptyDataFrame, {"Sentiment data file not found"})
    ELSE IF "date" \in ColumnSet(got.value)
         THEN Returned(parse_dates(got.value, "date"), {})
         ELSE Returned(got.value, {})

LoaderSet == {"financial", "commodities", "sentiment"}

Load(l, f) ==
    CASE l = "financial"   -> load_financial_data(f)
      [] l = "commodities" -> load_commodities_data(f)
      [] l = "sentiment"   -> load_sentiment_data(f)

\* ------------------------------------------------------------------ st.cache_data

Miss == [hit |-> FALSE, value |-> EmptyDataFrame, msgs |-> {}]

\* A cache that files a returned value under every loader, not under the one
\* that was called
Computed_unkeyed(c, rd, l, r) ==
    [exc |-> r.exc, value |-> r.value, msgs |-> r.msgs,
     cache |-> IF r.exc = NoException
               THEN [k \in LoaderSet |-> [hit |-> TRUE, value |-> r.value, msgs |-> r.msgs]]
               ELSE c,
     reads |-> [rd EXCEPT ![l] = @ + 1]]

\* What a miss leaves: the body ran (one more read of the file); a value it
\* returned is stored with the st.error messages it showed; a body that raised
\* stores nothing.
Computed(c, rd, l, r) ==
    [exc |-> r.exc, value |-> r.value, msgs |-> r.msgs,
     cache |-> IF r.exc = NoException
               THEN [c EXCEPT ![l] = [hit |-> TRUE, value |-> r.value, msgs |-> r.msgs]]
               ELSE c,
     reads |-> [rd EXCEPT ![l] = @ + 1]]

\* A call of a memoised loader: a hit returns the stored value and replays the
\* stored messages without running the body; a miss runs the body.
CallCached(c, rd, l) ==
    IF c[l].hit
    THEN [exc |-> NoException, value |-> c[l].value, msgs |-> c[l].msgs,
          cache |-> c, reads |-> rd]
    ELSE Computed(c, rd, l, Load(l, file[l]))

\* A cache that hands every caller the stored object itself (st.cache_resource):
\* what the caller does to the table is done to the cached one.
StoredAfterCaller_shared(stored, callers) == callers

\* st.cache_data stores the value serialised and hands each caller its own copy:
\* what the caller then does to its table does not reach the stored one.
StoredAfterCaller(stored, callers) == stored

NoFault == [exc |-> NoException, at |-> ""]

LoaderFaults == {"load_financial_data", "load_commodities_data", "load_sentiment_data"}

\* One module-level assignment, df = load(): the table is bound, or the
\* exception the call raised ends the run there.
Assigned(acc, l, r) ==
    IF r.exc # NoException
    THEN [acc EXCEPT !.fault = [exc |-> r.exc, at |-> "load_" \o l \o "_data"],
                     !.cache = r.cache, !.reads = r.reads]
    ELSE [acc EXCEPT !.df[l] = r.value, !.msgs = @ \cup r.msgs,
                     !.cache = r.cache, !.reads = r.reads]

LoadStep(acc, l) ==
    IF acc.fault # NoFault THEN acc
    ELSE Assigned(acc, l, CallCached(acc.cache, acc.reads, l))

\* Lines 143-145: the three module-level calls, in order; the first exception
\* ends the run before the sidebar exists.
LoadAll(c, rd) ==
    LoadStep(LoadStep(LoadStep(
        [fault |-> NoFault, df |-> [l \in LoaderSet |-> EmptyDataFrame], msgs |-> {},
         cache |-> c, reads |-> rd],
        "financial"), "commodities"), "sentiment")

\* ------------------------------------------------------------------ pages

pages == <<"metrics", "explorer", "commodities", "sentiments", "filtered_visuals">>
PageSet == {pages[i] : i \in 1..Len(pages)}

\* What a page hands back: the exception that ended it (if any), what it showed,
\* and the module-level tables as it left them.
Shown(exc, warnings, errors, elements, fin, com) ==
    [fault |-> IF exc = NoException THEN NoFault ELSE [exc |-> exc, at |-> "page"],
     warnings |-> warnings, errors |-> errors, rendered |-> elements,
     fin |-> fin, com |-> com,
     options |-> <<>>, column |-> "", filtered |-> EmptyDataFrame,
     agg |-> [x_col |-> "", rows |-> <<>>],
     sentiment_col |-> "", latest_date |-> "", changes |-> <<>>]

\* The columns of the modelled files that the two dashboards index by name.
MetricsColumns == {"Date", "Total Revenue", "Shareholders_Equity"}
CommoditiesColumns == {"Date", "CPI"}

\* The measures whose latest value is compared with the previous one
FinancialChangeColumns ==
    {"Total Revenue", "Total Assets", "Total Liabilities", "Long Term Debt",
     "Shareholders_Equity"}
CommoditiesChangeColumns == {"CPI", "GDP", "Oil", "Copper"}

\* Series.iloc[k] for a negative k: the k-th cell from the end
iloc(df, c, k) == df.rows[Len(df.rows) + 1 + k][c]

\* latest - prev on numpy scalars: NaN in, NaN out
minus(a, b) == IF a = NaN \/ b = NaN THEN NaN ELSE <<a[1] - b[1]>>

abs(x) == IF x < 0 THEN -x ELSE x

RECURSIVE gcd(_, _)
gcd(a, b) == IF b = 0 THEN a ELSE gcd(b, a % b)

\* A quotient kept exact: <<n, d>> in lowest terms, d > 0.  numpy does not
\* raise on a zero divisor, it gives inf or nan: <<sign, 0>>.
divide(a, b) ==
    IF a = NaN \/ b = NaN THEN NaN
    ELSE IF b[1] = 0 THEN <<IF a[1] > 0 THEN 1 ELSE IF a[1] < 0 THEN -1 ELSE 0, 0>>
    ELSE LET g == gcd(abs(a[1]), abs(b[1]))
             s == IF b[1] < 0 THEN -1 ELSE 1
         IN  <<(s * a[1]) \div g, abs(b[1]) \div g>>

\* q * 100
times100(q) ==
    IF q = NaN THEN NaN
    ELSE IF q[2] = 0 THEN q
    ELSE LET g == gcd(100, q[2]) IN <<q[1] * (100 \div g), q[2] \div g>>

\* (change / prev) * 100 with no test of prev
percent_change_unguarded(change, prev) == times100(divide(change, prev))

\* (change / prev) * 100 if prev != 0 else 0
percent_change(change, prev) ==
    IF prev # <<0>> THEN times100(divide(change, prev)) ELSE <<0, 1>>

\* The first row of the table instead of the last
latest_previous_first_row(df, c) ==
    [latest |-> df.rows[1][c],
     prev   |-> IF Len(df.rows) > 1 THEN df.rows[2][c] ELSE df.rows[1][c]]

\* latest = s.iloc[-1]; prev = s.iloc[-2] if len(df) > 1 else latest
latest_previous(df, c) ==
    [latest |-> iloc(df, c, -1),
     prev   |-> IF Len(df.rows) > 1 THEN iloc(df, c, -2) ELSE iloc(df, c, -1)]

\* The four numbers behind one "Latest ..." card
change_of(df, c) ==
    [latest     |-> latest_previous(df, c).latest,
     prev       |-> latest_previous(df, c).prev,
     change     |-> minus(latest_previous(df, c).latest, latest_previous(df, c).prev),
     change_pct |-> percent_change(minus(latest_previous(df, c).latest,
                                         latest_previous(df, c).prev),
                                   latest_previous(df, c).prev)]

MonthAbbr ==
    <<"Jan", "Feb", "Mar", "Apr", "May", "Jun",
      "Jul", "Aug", "Sep", "Oct", "Nov", "Dec">>

\* Timestamp.strftime('%b %Y')
strftime_b_Y(t) == MonthAbbr[dt_month(t)] \o " " \o ToString(dt_year(t))

\* df['Date'].max()
max_Date(df) ==
    CHOOSE t \in {df.rows[r]["Date"] : r \in 1..Len(df.rows)} :
        \A r \in 1..Len(df.rows) : df.rows[r]["Date"] <= t

\* The header label and the change figures of a dashboard
Dashboard(df, fin, com, tracked) ==
    [Shown(NoException, {}, {}, {"cards", "charts"}, fin, com)
        EXCEPT !.latest_date = strftime_b_Y(max_Date(df)),
               !.changes = [c \in tracked \cap ColumnSet(df) |-> change_of(df, c)]]

\* Financial Metrics page
MetricsPage(fin, com) ==
    IF ~IsEmpty(fin)
    THEN IF MetricsColumns \subseteq ColumnSet(fin)
         THEN Dashboard(fin, fin, com, FinancialChangeColumns)
         ELSE Shown("KeyError", {}, {}, {}, fin, com)
    ELSE Shown(NoException, {"No financial data available"}, {}, {}, fin, com)

\* The dtype pandas gives a column: Date is parsed to datetime64, the tags and
\* month names are object, dt.year is integer, the csv's measures are float64.
dtype(c) ==
    CASE c \in {"Date", "date"}    -> "datetime64[ns]"
      [] c \in {"source", "month"} -> "object"
      [] c = "year"                -> "int32"
      [] OTHER                     -> "float64"

\* Data Explorer page: the table under its csv column names, every column but
\* Date formatted with "{:,.2f}", which raises ValueError on a str cell.
ExplorerPage(fin, com) ==
    IF ~IsEmpty(fin)
    THEN LET display_df == rename(fin, ("Shareholders_Equity" :> "Shareholder's Equity")) IN
         IF \E c \in ColumnSet(display_df) \ {"Date"} : dtype(c) = "object"
         THEN Shown("ValueError", {}, {}, {}, fin, com)
         ELSE Shown(NoException, {}, {}, {"dataframe"}, fin, com)
    ELSE Shown(NoException, {"No financial data available"}, {}, {}, fin, com)

\* Commodities & Macro page
CommoditiesPage(fin, com) ==
    IF ~IsEmpty(com)
    THEN IF CommoditiesColumns \subseteq ColumnSet(com)
         THEN Dashboard(com, fin, com, CommoditiesChangeColumns)
         ELSE Shown("KeyError", {}, {}, {}, fin, com)
    ELSE Shown(NoException, {"No commodities data available"}, {}, {}, fin, com)

possible_sentiment_cols == <<"sentiment_score", "sentiment", "score", "sentiment score">>

\* The loop without its break: the last alias that is a column
RECURSIVE LastAlias(_, _)
LastAlias(aliases, cols) ==
    IF aliases = <<>> THEN ""
    ELSE IF aliases[Len(aliases)] \in cols THEN aliases[Len(aliases)]
    ELSE LastAlias(SubSeq(aliases, 1, Len(aliases) - 1), cols)

\* The for/break loop: the first alias, in list order, that is a column; "" is None.
RECURSIVE FirstAlias(_, _)
FirstAlias(aliases, cols) ==
    IF aliases = <<>> THEN ""
    ELSE IF Head(aliases) \in cols THEN Head(aliases)
    ELSE FirstAlias(Tail(aliases), cols)

\* ', '.join(names)
RECURSIVE join(_)
join(names) ==
    IF names = <<>> THEN ""
    ELSE IF Len(names) = 1 THEN names[1]
    ELSE names[1] \o ", " \o join(Tail(names))

\* The message without the names
ColumnNotFound_unnamed(columns) == "Sentiment column not found."

\* f"Sentiment column not found. Available columns: {', '.join(sentiment_df.columns)}"
ColumnNotFound(columns) ==
    "Sentiment column not found. Available columns: " \o join(columns)

\* News Sentiments page
SentimentsPage_resolved(fin, com, sen, found) ==
    IF found # ""
    THEN [Shown(NoException, {}, {}, {"histogram", "cards", "pie"}, fin, com)
            EXCEPT !.sentiment_col = found]
    ELSE Shown(NoException, {}, {ColumnNotFound(sen.columns)}, {}, fin, com)

SentimentsPage(fin, com, sen) ==
    IF ~IsEmpty(sen)
    THEN SentimentsPage_resolved(fin, com, sen,
                                 FirstAlias(possible_sentiment_cols, ColumnSet(sen)))
    ELSE Shown(NoException, {"No sentiment data loaded"}, {}, {}, fin, com)
\* ------------------------------------------------------------------ aggregation

\* pd.concat([a, b]): the union of the columns, a's first; a's rows, then b's; a
\* cell of a column the row's table does not have is NaN
concat(a, b) ==
    LET all == ColumnSet(a) \cup ColumnSet(b)
        fill(df, r) == [c \in all |-> IF c \in ColumnSet(df) THEN df.rows[r][c] ELSE NaN]
    IN  [columns |-> a.columns \o SelectSeq(b.columns, LAMBDA c : c \notin ColumnSet(a)),
         rows    |-> [r \in 1..Len(a.rows) |-> fill(a, r)]
                        \o [r \in 1..Len(b.rows) |-> fill(b, r)]]

\* Series.dt.month_name()
MonthNames ==
    <<"January", "February", "March", "April", "May", "June",
      "July", "August", "September", "October", "November", "December">>

month_name(t) == MonthNames[dt_month(t)]

\* combined_df['year'] = ...dt.year; combined_df['month'] = ...dt.month_name()
add_year_month(df) ==
    [columns |-> df.columns
                    \o SelectSeq(<<"year", "month">>, LAMBDA c : c \notin ColumnSet(df)),
     rows    |-> [r \in 1..Len(df.rows) |->
                    [c \in ColumnSet(df) \cup {"year", "month"} |->
                        CASE c = "year"  -> dt_year(df.rows[r]["Date"])
                          [] c = "month" -> month_name(df.rows[r]["Date"])
                          [] OTHER       -> df.rows[r][c]]]]

\* combined_df[combined_df['source'] == src]
where_source(df, src) ==
    [df EXCEPT !.rows = SelectSeq(df.rows, LAMBDA row : row["source"] = src)]

\* The twelve names in alphabetical order: the order a groupby of the plain
\* month-name strings would give.
month_order_alphabetical ==
    <<"April", "August", "December", "February", "January", "July",
      "June", "March", "May", "November", "October", "September">>

month_order ==
    <<"January", "February", "March", "April", "May", "June",
      "July", "August", "September", "October", "November", "December">>

\* pd.Categorical(values, categories): the position of the value among the
\* categories, -1 for a value that is no category
category_code(categories, v) ==
    IF \E i \in 1..Len(categories) : categories[i] = v
    THEN CHOOSE i \in 1..Len(categories) : categories[i] = v
    ELSE -1

RECURSIVE Ascending(_)
Ascending(S) ==
    IF S = {} THEN <<>>
    ELSE LET m == CHOOSE x \in S : \A y \in S : x <= y
         IN  <<m>> \o Ascending(S \ {m})

\* The distinct keys in the order the rows first show them (groupby(sort=False)).
RECURSIVE group_keys_first_seen(_)
group_keys_first_seen(keys) ==
    IF keys = <<>> THEN <<>>
    ELSE <<Head(keys)>>
            \o group_keys_first_seen(SelectSeq(Tail(keys), LAMBDA k : k # Head(keys)))

\* groupby(key): one group per distinct key, the keys sorted (sort=True)
group_keys(keys) == Ascending({keys[i] : i \in 1..Len(keys)})

\* The sum and the count of the non-missing cells of col over the rows of the
\* group k, taken row by row.
RECURSIVE group_sum_count(_, _, _, _)
group_sum_count(rows, keys, k, col) ==
    IF rows = <<>> THEN <<0, 0>>
    ELSE LET rest == group_sum_count(Tail(rows), Tail(keys), k, col)
         IN  IF Head(keys) = k /\ Head(rows)[col] # NaN
             THEN <<rest[1] + Head(rows)[col][1], rest[2] + 1>>
             ELSE rest

\* SeriesGroupBy.mean(): missing cells are skipped; a group with none left is NaN
group_mean(rows, keys, k, col) ==
    LET sc == group_sum_count(rows, keys, k, col)
    IN  IF sc[2] = 0 THEN NaN ELSE sc

\* pd.Categorical(filtered_df['month'], categories=month_order, ordered=True)
month_codes(df) ==
    [r \in 1..Len(df.rows) |-> category_code(month_order, df.rows[r]["month"])]

\* groupby on a categorical key: the groups are the categories in category
\* order; every category when observed=False, the ones some row has when
\* observed=True
categorical_groups(codes, obs) ==
    Ascending(IF obs THEN {codes[r] : r \in 1..Len(codes)} \ {-1}
              ELSE 1..Len(month_order))

monthly_rows(rows, codes, groups, col) ==
    [i \in 1..Len(groups) |->
        [label |-> month_order[groups[i]],
         mean  |-> group_mean(rows, codes, groups[i], col)]]

\* filtered_df.groupby('month')[column].mean().reset_index()
monthly(df, col, obs) ==
    monthly_rows(df.rows, month_codes(df), categorical_groups(month_codes(df), obs), col)

years_of(df) == [r \in 1..Len(df.rows) |-> df.rows[r]["year"]]

yearly_rows(rows, years, groups, col) ==
    [i \in 1..Len(groups) |->
        [label |-> groups[i], mean |-> group_mean(rows, years, groups[i], col)]]

\* filtered_df.groupby('year')[column].mean().reset_index()
yearly(df, col) ==
    yearly_rows(df.rows, years_of(df), group_keys(years_of(df)), col)

\* No filter: the combined table whatever the selectbox says
select_dataset_ignored(combined_df, ds) == combined_df

\* The dataset filter
select_dataset(combined_df, ds) ==
    CASE ds = "Financial"   -> where_source(combined_df, "financial")
      [] ds = "Commodities" -> where_source(combined_df, "commodities")
      [] OTHER              -> combined_df

\* select_dtypes(include=['float64', 'int64']) less year, month and source
metric_options(df) ==
    SelectSeq(SelectSeq(df.columns, LAMBDA c : dtype(c) \in {"float64", "int64"}),
              LAMBDA c : c \notin {"year", "month", "source"})

\* st.selectbox(options, index=0): the session's choice if it is an option, else
\* the first option; None ("") when there is no option
selectbox(options, choice) ==
    IF \E i \in 1..Len(options) : options[i] = choice THEN choice
    ELSE IF options # <<>> THEN options[1] ELSE ""

\* The aggregation and the bar chart; groupby(...)[None] raises KeyError
FilteredPage_chart(fin1, com1, filtered, options, chosen, agg, obs) ==
    IF chosen = ""
    THEN [Shown("KeyError", {}, {}, {"selectboxes"}, fin1, com1)
            EXCEPT !.options = options, !.filtered = filtered]
    ELSE [Shown(NoException, {}, {}, {"selectboxes", "bar"}, fin1, com1)
            EXCEPT !.options = options, !.column = chosen, !.filtered = filtered,
                   !.agg = IF agg = "Monthly"
                           THEN [x_col |-> "month", rows |-> monthly(filtered, chosen, obs)]
                           ELSE [x_col |-> "year", rows |-> yearly(filtered, chosen)]]

\* The three selectboxes
FilteredPage_filters(fin1, com1, filtered, col, agg, obs) ==
    FilteredPage_chart(fin1, com1, filtered, metric_options(filtered),
                       selectbox(metric_options(filtered), col), agg, obs)

\* combined_df['Date'] raises KeyError when neither table has the column
FilteredPage_combined(fin1, com1, combined_df, ds, col, agg, obs) ==
    IF "Date" \notin ColumnSet(combined_df)
    THEN Shown("KeyError", {}, {}, {}, fin1, com1)
    ELSE FilteredPage_filters(fin1, com1, select_dataset(add_year_month(combined_df), ds),
                              col, agg, obs)

FilteredPage_tagged(fin1, com1, ds, col, agg, obs) ==
    FilteredPage_combined(fin1, com1, concat(fin1, com1), ds, col, agg, obs)

\* Filtered Visualizations page: the two module-level tables are tagged in
\* place, then combined, filtered and aggregated
FilteredPage(fin, com, ds, col, agg, obs) ==
    FilteredPage_tagged(assign_scalar(fin, "source", "financial"),
                        assign_scalar(com, "source", "commodities"), ds, col, agg, obs)

\* ------------------------------------------------------------------ one run

\* The branch of the selected page
Page(L, page, ds, col, agg) ==
    CASE page = "metrics"     -> MetricsPage(L.df["financial"], L.df["commodities"])
      [] page = "explorer"    -> ExplorerPage(L.df["financial"], L.df["commodities"])
      [] page = "commodities" -> CommoditiesPage(L.df["financial"], L.df["commodities"])
      [] page = "sentiments"  -> SentimentsPage(L.df["financial"], L.df["commodities"],
                                                L.df["sentiment"])
      [] OTHER                -> FilteredPage(L.df["financial"], L.df["commodities"],
                                              ds, col, agg, observed)

\* The tables the callers hold when the run ends
Held(L, P) ==
    ("financial" :> P.fin) @@ ("commodities" :> P.com) @@ ("sentiment" :> L.df["sentiment"])

\* What the run leaves: what the page showed after the loaders' messages, and
\* the cache
Finished(L, P) ==
    [P EXCEPT !.errors = L.msgs \cup P.errors]
        @@ [sen |-> L.df["sentiment"],
            cache |-> [l \in LoaderSet |->
                          [L.cache[l] EXCEPT !.value = StoredAfterCaller(@, Held(L, P)[l])]],
            reads |-> L.reads]

Rendered(L, page, ds, col, agg) ==
    IF L.fault # NoFault
    THEN [Shown(NoException, {}, L.msgs, {}, L.df["financial"], L.df["commodities"])
            EXCEPT !.fault = L.fault]
            @@ [sen |-> L.df["sentiment"], cache |-> L.cache, reads |-> L.reads]
    ELSE Finished(L, Page(L, page, ds, col, agg))

\* One execution of the script, top to bottom: the three loads, then the branch
\* of the selected page.  ds, col and agg are the session's widget values.
RunScript(c, rd, page, ds, col, agg) == Rendered(LoadAll(c, rd), page, ds, col, agg)

\* The state a run leaves behind.
Run(page, ds, col, agg) ==
    \E R \in {RunScript(cache, reads, page, ds, col, agg)} :
    /\ \A l \in LoaderSet : R.reads[l] <= MaxReads
    /\ cache' = R.cache
    /\ reads' = R.reads
    /\ selected_page' = page
    /\ dataset' = ds
    /\ column' = R.column
    /\ time_agg' = agg
    /\ financial_df' = R.fin
    /\ commodities_df' = R.com
    /\ sentiment_df' = R.sen
    /\ fault' = R.fault
    /\ st_errors' = R.errors
    /\ st_warnings' = R.warnings
    /\ rendered' = R.rendered
    /\ numeric_options' = R.options
    /\ agg_df' = R.agg
    /\ filtered_df' = R.filtered
    /\ visitedFiltered' = (visitedFiltered
                             \/ (page = "filtered_visuals" /\ R.fault.at \notin LoaderFaults))
    /\ sentiment_col' = R.sentiment_col
    /\ latest_date' = R.latest_date
    /\ changes' = R.changes
    /\ UNCHANGED <<file, observed, card_args, card>>

\* ------------------------------------------------------------------ metric cards

\* A Python value handed to create_metric_card: its type, and either the
\* number in thousandths or the text of a str.
Number(type, milli) == [type |-> type, milli |-> milli, text |-> ""]
Str(text) == [type |-> "str", milli |-> 0, text |-> text]
None == [type |-> "NoneType", milli |-> 0, text |-> ""]
\* change_pct left at its default None
NoPercent == <<>>

\* isinstance(value, (int, float)): numpy.float64 subclasses float,
\* numpy.int64 does not subclass int
isinstance_int_float(value) == value.type \in {"int", "float", "numpy.float64"}

\* n / d rounded to the nearest integer, a tie to the even one (d > 0)
RoundDiv(n, d) ==
    LET q == n \div d
        r == n % d
    IN  IF 2 * r > d THEN q + 1
        ELSE IF 2 * r < d THEN q
        ELSE IF q % 2 = 0 THEN q ELSE q + 1

RECURSIVE Pow10(_)
Pow10(k) == IF k = 0 THEN 1 ELSE 10 * Pow10(k - 1)

\* k digits of n, zeros in front
RECURSIVE Digits(_, _)
Digits(n, k) == IF k = 0 THEN "" ELSE Digits(n \div 10, k - 1) \o ToString(n % 10)

\* The "," of a format spec: the integer part in groups of three
RECURSIVE Grouped(_)
Grouped(n) ==
    IF n < 1000 THEN ToString(n) ELSE Grouped(n \div 1000) \o "," \o Digits(n % 1000, 3)

\* f"{x:,.kf}" for x = units / 10^k, units being x already rounded to k decimals
Fixed(units, k) ==
    (IF units < 0 THEN "-" ELSE "")
        \o Grouped(abs(units) \div Pow10(k)) \o "." \o Digits(abs(units) % Pow10(k), k)

\* f"{x:.kf}": no grouping
FixedPlain(units, k) ==
    (IF units < 0 THEN "-" ELSE "")
        \o ToString(abs(units) \div Pow10(k)) \o "." \o Digits(abs(units) % Pow10(k), k)

\* str(value) of a str or of an integer
str(value) == IF value.type = "str" THEN value.text ELSE ToString(value.milli \div 1000)

Million == 1000000
Thousand == 1000

\* The value on the card
value_display(value) ==
    IF isinstance_int_float(value)
    THEN IF abs(value.milli) >= Million * 1000
         THEN "$" \o Fixed(RoundDiv(value.milli, Million * 100), 1) \o "M"
         ELSE IF abs(value.milli) >= Thousand * 1000
         THEN "$" \o Fixed(RoundDiv(value.milli, Thousand * 100), 1) \o "K"
         ELSE Fixed(RoundDiv(value.milli, 10), 2)
    ELSE str(value)

\* f"{abs(change_pct):.1f}" of an exact quotient
percent_text(q) ==
    IF q[2] = 0 THEN "inf" ELSE FixedPlain(RoundDiv(abs(q[1]) * 10, q[2]), 1)

\* f"{arrow} {abs(change):,.2f} ({abs(change_pct):.1f}%)"; the arrows are
\* written "up" and "down"
change_text(arrow, change, change_pct) ==
    arrow \o " " \o Fixed(RoundDiv(abs(change.milli), 10), 2)
          \o " (" \o percent_text(change_pct) \o "%)"

\* The card with "change > 0" for the arrow
create_metric_card_strict(value, change, change_pct) ==
    IF change # None /\ change_pct # NoPercent
    THEN [value_display |-> value_display(value),
          arrow         |-> IF change.milli > 0 THEN "up" ELSE "down",
          change_color  |-> IF change.milli > 0 THEN "positive" ELSE "negative",
          change_text   |-> change_text(IF change.milli > 0 THEN "up" ELSE "down",
                                        change, change_pct)]
    ELSE [value_display |-> value_display(value), arrow |-> "",
          change_color |-> "neutral", change_text |-> ""]

\* create_metric_card(title, value, change, change_pct, icon): what the card
\* shows; change_pct is an exact quotient
create_metric_card(value, change, change_pct) ==
    IF change # None /\ change_pct # NoPercent
    THEN [value_display |-> value_display(value),
          arrow         |-> IF change.milli >= 0 THEN "up" ELSE "down",
          change_color  |-> IF change.milli >= 0 THEN "positive" ELSE "negative",
          change_text   |-> change_text(IF change.milli >= 0 THEN "up" ELSE "down",
                                        change, change_pct)]
    ELSE [value_display |-> value_display(value), arrow |-> "",
          change_color |-> "neutral", change_text |-> ""]

\* A call as the dashboards make it: the change and its percentage computed
\* from the latest and the previous value, the value passed as a number or
\* already formatted with f"{latest:.2f}"
CardCall(latest, previous, as_text) ==
    [latest     |-> latest,
     previous   |-> previous,
     value      |-> IF as_text THEN Str(FixedPlain(RoundDiv(latest.milli, 10), 2))
                    ELSE latest,
     change     |-> IF previous = None THEN None
                    ELSE Number(latest.type, latest.milli - previous.milli),
     change_pct |-> IF previous = None THEN NoPercent
                    ELSE percent_change(<<latest.milli - previous.milli>>,
                                        <<previous.milli>>)]

NoCall ==
    [latest |-> None, previous |-> None, value |-> None, change |-> None,
     change_pct |-> NoPercent]
NoCard == [value_display |-> "", arrow |-> "", change_color |-> "", change_text |-> ""]

\* ------------------------------------------------------------------ the files

Absent == [exists |-> FALSE, columns |-> <<>>, rows |-> <<>>]
Present(cols, rows) == [exists |-> TRUE, columns |-> cols, rows |-> rows]

SeqsUpTo(S, n) == UNION {[1..k -> S] : k \in 0..n}

FinancialRow(d, v) ==
    ("Date" :> d) @@ ("Total Revenue" :> v) @@ ("Shareholder's Equity" :> <<5>>)

CommoditiesRow(d, v) == ("Date" :> d) @@ ("CPIAUCSL" :> v)

\* The rows a file is made of: two years, two months (February 2020 before
\* January 2021), a month with two different measures, a missing measure
FinancialRows ==
    {FinancialRow(<<2020, 2>>, <<1>>), FinancialRow(<<2020, 2>>, <<3>>),
     FinancialRow(<<2021, 1>>, <<3>>), FinancialRow(<<2021, 1>>, NaN)}

CommoditiesRows ==
    {CommoditiesRow(<<2020, 1>>, <<1>>), CommoditiesRow(<<2021, 1>>, <<3>>),
     CommoditiesRow(<<2021, 1>>, NaN)}

\* financials_cleaned_for_plots.csv: absent, without its Date column, or with up
\* to MaxRows rows in any order
FinancialFiles ==
    {Absent, Present(<<"Total Revenue">>, <<("Total Revenue" :> <<1>>)>>)}
    \cup {Present(<<"Date", "Total Revenue", "Shareholder's Equity">>, rows) :
            rows \in SeqsUpTo(FinancialRows, MaxRows)}

\* commodities.csv: absent, without its Date column, or with up to MaxRows - 1
\* rows in any order
CommoditiesFiles ==
    {Absent, Present(<<"CPIAUCSL">>, <<("CPIAUCSL" :> <<1>>)>>)}
    \cup {Present(<<"Date", "CPIAUCSL">>, rows) :
            rows \in SeqsUpTo(CommoditiesRows, MaxRows - 1)}

\* senti.csv
SentimentFiles ==
    {Absent,
     Present(<<"date", "sentiment_score">>,
             <<("date" :> <<2021, 1>>) @@ ("sentiment_score" :> <<1>>)>>)}

\* The files with every measure the dashboards compare: a row's measure in the
\* k-th column is k times the row's base, so that the columns differ, a base of
\* 0 gives zeros and a missing base gives NaN
FullFinancialColumns ==
    <<"Date", "Total Revenue", "Total Assets", "Total Liabilities", "Long Term Debt",
      "Shareholder's Equity">>
FullCommoditiesColumns == <<"Date", "CPIAUCSL", "GDP", "WTISPLC", "PCOPPUSDM">>

FullRow(columns, d, base) ==
    [c \in {columns[k] : k \in 1..Len(columns)} |->
        IF c = "Date" THEN d
        ELSE IF base = NaN THEN NaN
        ELSE <<base[1] * (CHOOSE k \in 1..Len(columns) : columns[k] = c)>>]

FullRows(columns) ==
    {FullRow(columns, <<2020, 2>>, <<0>>), FullRow(columns, <<2020, 2>>, <<-1>>),
     FullRow(columns, <<2021, 1>>, <<3>>), FullRow(columns, <<2021, 1>>, <<0>>),
     FullRow(columns, <<2021, 1>>, NaN)}

FullFiles(columns) == {Present(columns, rows) : rows \in SeqsUpTo(FullRows(columns), MaxRows)}

TwoRows(columns) ==
    Present(columns, <<FullRow(columns, <<2020, 2>>, <<-1>>),
                       FullRow(columns, <<2021, 1>>, <<3>>)>>)

\* senti.csv with up to MaxSentimentCols columns, in any order, and one row
SentimentNames == {"date", "headline", "sentiment_score", "sentiment", "score",
                   "sentiment score"}

SentimentHeaders ==
    {h \in SeqsUpTo(SentimentNames, MaxSentimentCols) :
        h # <<>> /\ \A i, j \in 1..Len(h) : i # j => h[i] # h[j]}

SentimentRow(h) ==
    [c \in {h[k] : k \in 1..Len(h)} |-> IF c = "date" THEN <<2021, 1>> ELSE <<1>>]

AliasFiles == {Present(h, <<SentimentRow(h)>>) : h \in SentimentHeaders}

\* ------------------------------------------------------------------ the process

NoAggregate == [x_col |-> "", rows |-> <<>>]

\* A fresh process: nothing cached, no run yet.
Fresh ==
    /\ cache = [l \in LoaderSet |-> Miss]
    /\ reads = [l \in LoaderSet |-> 0]
    /\ selected_page = ""
    /\ dataset = "All"
    /\ column = ""
    /\ time_agg = "Monthly"
    /\ financial_df = EmptyDataFrame
    /\ commodities_df = EmptyDataFrame
    /\ sentiment_df = EmptyDataFrame
    /\ fault = NoFault
    /\ st_errors = {}
    /\ st_warnings = {}
    /\ rendered = {}
    /\ numeric_options = <<>>
    /\ agg_df = NoAggregate
    /\ filtered_df = EmptyDataFrame
    /\ visitedFiltered = FALSE
    /\ sentiment_col = ""
    /\ latest_date = ""
    /\ changes = <<>>
    /\ card_args = NoCall
    /\ card = NoCard

Files(f, c, s) == ("financial" :> f) @@ ("commodities" :> c) @@ ("sentiment" :> s)

Init ==
    /\ \E f \in FinancialFiles, c \in CommoditiesFiles, s \in SentimentFiles :
            file = Files(f, c, s)
    /\ observed \in BOOLEAN
    /\ Fresh

\* A fresh process over files with every column, one of the three files varying
AllColumnsFiles ==
    {Files(f, TwoRows(FullCommoditiesColumns), Present(<<"date", "sentiment_score">>,
                   <<SentimentRow(<<"date", "sentiment_score">>)>>)) :
        f \in FullFiles(FullFinancialColumns)}
    \cup {Files(TwoRows(FullFinancialColumns), c, Present(<<"date", "sentiment_score">>,
                   <<SentimentRow(<<"date", "sentiment_score">>)>>)) :
        c \in FullFiles(FullCommoditiesColumns)}
    \cup {Files(TwoRows(FullFinancialColumns), TwoRows(FullCommoditiesColumns), s) :
        s \in AliasFiles}

InitAllColumns ==
    /\ file \in AllColumnsFiles
    /\ observed \in BOOLEAN
    /\ Fresh

\* A process that only calls create_metric_card
InitCard ==
    /\ file = Files(Absent, Absent, Absent)
    /\ observed = FALSE
    /\ Fresh

\* The sidebar radio exists once a run got past the loads.
SidebarShown == selected_page # "" /\ fault.at \notin LoaderFaults

\* The three selectboxes exist once the filtered page got past line 1017.
FiltersShown == selected_page = "filtered_visuals" /\ "selectboxes" \in rendered

\* The browser opens the app: the first run, every widget at its default.
Open ==
    /\ selected_page = ""
    /\ Run(pages[1], "All", "", "Monthly")

\* The user asks for a rerun (or ticks "Show Aggregated Data Table"): the script
\* runs again with the widgets as they are.
Rerun ==
    /\ selected_page # ""
    /\ Run(selected_page, dataset, column, time_agg)

\* The user picks another page; the filtered page's widgets start at their
\* defaults whenever the page is entered.
Navigate(p) ==
    /\ SidebarShown
    /\ p # selected_page
    /\ Run(p, "All", "", "Monthly")

SelectDataset(d) ==
    /\ FiltersShown
    /\ d # dataset
    /\ Run(selected_page, d, column, time_agg)

SelectColumn(c) ==
    /\ FiltersShown
    /\ c # column
    /\ Run(selected_page, dataset, c, time_agg)

SelectTimeAgg(t) ==
    /\ FiltersShown
    /\ t # time_agg
    /\ Run(selected_page, dataset, column, t)

\* One card is built
MakeCard(latest, previous, as_text) ==
    /\ card_args' = CardCall(latest, previous, as_text)
    /\ card' = create_metric_card(CardCall(latest, previous, as_text).value,
                                  CardCall(latest, previous, as_text).change,
                                  CardCall(latest, previous, as_text).change_pct)
    /\ UNCHANGED <<file, observed, cache, reads, selected_page, dataset, column,
                   time_agg, financial_df, commodities_df, sentiment_df, fault,
                   st_errors, st_warnings, rendered, numeric_options, agg_df,
                   filtered_df, visitedFiltered, sentiment_col, latest_date, changes>>

\* The values the cards are given, in thousandths: around both thresholds, of
\* either sign, as Python and as numpy numbers, and a text
FloatTypes == {"float", "numpy.float64"}
IntTypes == {"int", "numpy.int64"}

CardMagnitudes ==
    {0, 42678, 999000, 1000000, 2500000, 999999000, 1000000000, 1500000000}

Signed(S) == S \cup {0 - m : m \in S}

Numbers(S) ==
    {Number(t, m) : t \in FloatTypes, m \in S}
    \cup {Number(t, m) : t \in IntTypes, m \in {x \in S : x % 1000 = 0}}

\* The values compared with a previous one
ChangeMagnitudes == {0, 90000, 100000, 110000, -100000, 42678}

CardInputs ==
    {<<v, None, FALSE>> : v \in Numbers(Signed(CardMagnitudes)) \cup {Str("N/A")}}
    \cup {<<a, b, x>> \in Numbers(ChangeMagnitudes) \X Numbers(ChangeMagnitudes) \X BOOLEAN :
            a.type = b.type}

NextCard == \E in \in CardInputs : MakeCard(in[1], in[2], in[3])

Next ==
    \/ Open
    \/ Rerun
    \/ \E p \in PageSet : Navigate(p)
    \/ \E d \in {"All", "Financial", "Commodities"} : SelectDataset(d)
    \/ \E i \in 1..Len(numeric_options) : SelectColumn(numeric_options[i])
    \/ \E t \in {"Monthly", "Yearly"} : SelectTimeAgg(t)

Spec == Init /\ [][Next]_vars

SpecAllColumns == InitAllColumns /\ [][Next]_vars

SpecCard == InitCard /\ [][NextCard]_vars
\* ------------------------------------------------------------------ claims

NotFoundMessage(l) ==
    CASE l = "financial"   -> "Financial data file not found"
      [] l = "commodities" -> "Commodities data file not found"
      [] l = "sentiment"   -> "Sentiment data file not found"

LoaderFault(l) == "load_" \o l \o "_data"

\* C1: a loader whose file is absent returns a table of zero rows and zero
\* columns (which is what the cache then holds), its warning is on the page of
\* every run that calls it, and the call does not raise.
C1_MissingFileGivesEmptyTable ==
    \A l \in LoaderSet :
        (~file[l].exists /\ reads[l] > 0) =>
            /\ cache[l].hit
            /\ Len(cache[l].value.columns) = 0
            /\ Len(cache[l].value.rows) = 0
            /\ NotFoundMessage(l) \in st_errors
            /\ fault.at # LoaderFault(l)

\* All three files are absent and a run has called all three loaders.
C1_Witness ==
    /\ \A l \in LoaderSet : ~file[l].exists /\ reads[l] = 1
    /\ selected_page = "metrics"
    /\ "No financial data available" \in st_warnings

\* No loader raises on its file: the three tables exist, empty or not.
AllLoaded == \A l \in LoaderSet : Load(l, file[l]).exc = NoException

NoDataNotices ==
    {"No financial data available", "No commodities data available",
     "No sentiment data loaded"}

DataElements == {"cards", "charts", "dataframe", "histogram", "pie", "bar"}

\* The tables a page draws from, as the loaders returned them.
Backing(page) ==
    CASE page \in {"metrics", "explorer"} -> {cache["financial"].value}
      [] page = "commodities"             -> {cache["commodities"].value}
      [] page = "sentiments"              -> {cache["sentiment"].value}
      [] OTHER -> {cache["financial"].value, cache["commodities"].value}

\* C2: whatever tables are empty, every one of the five pages renders without an
\* exception, and a page with an empty backing table shows a "no data" notice
\* and no card, chart or table; the filtered page included.
C2_EmptyViewShowsNotice ==
    (selected_page # "" /\ AllLoaded) =>
        /\ fault = NoFault
        /\ (\E t \in Backing(selected_page) : IsEmpty(t)) =>
                /\ st_warnings \cap NoDataNotices # {}
                /\ rendered \cap DataElements = {}

\* C3: no run ends in an exception raised by a loader, whatever its file is:
\* absent, with the expected columns, or without the Date column.
C3_LoaderNeverRaises == fault.at \notin LoaderFaults

\* C4: however many runs the interactions cause, pd.read_csv runs at most once
\* per file in the process.
C4_EachFileReadAtMostOnce == \A l \in LoaderSet : reads[l] <= 1

\* C5: when a run ends, financial_df and commodities_df are the tables the
\* loaders returned: same columns, same cells.
C5_LoadedTablesNeverMutated ==
    (selected_page # "" /\ fault.at \notin LoaderFaults) =>
        /\ financial_df = cache["financial"].value
        /\ commodities_df = cache["commodities"].value

OtherPages == PageSet \ {"filtered_visuals"}

AddedColumns == {"source", "year", "month"}

\* C6: on the four pages other than the filtered one, whatever was visited
\* before, the three tables are the freshly loaded ones, and neither financial_df
\* nor commodities_df has a source, year or month column.
C6_TagsNeverLeak ==
    (selected_page \in OtherPages /\ fault.at \notin LoaderFaults) =>
        /\ financial_df = Load("financial", file["financial"]).value
        /\ commodities_df = Load("commodities", file["commodities"]).value
        /\ sentiment_df = Load("sentiment", file["sentiment"]).value
        /\ AddedColumns \cap (ColumnSet(financial_df) \cup ColumnSet(commodities_df)) = {}

\* The Data Explorer shows a non-empty financial table after the filtered page
\* has tagged both non-empty tables in an earlier run.
C6_Witness ==
    /\ selected_page = "explorer"
    /\ visitedFiltered
    /\ "dataframe" \in rendered
    /\ ~IsEmpty(financial_df)
    /\ ~IsEmpty(commodities_df)

\* The number of a month in the calendar, by its pandas name.
CalendarNumber(name) == CHOOSE m \in 1..12 : MonthNames[m] = name

Labels == [i \in 1..Len(agg_df.rows) |-> agg_df.rows[i].label]

\* C7: the buckets of a monthly aggregation are month names in calendar order.
C7_MonthlyCalendarOrder ==
    agg_df.x_col = "month" =>
        /\ \A i \in 1..Len(Labels) : \E m \in 1..12 : MonthNames[m] = Labels[i]
        /\ \A i, j \in 1..Len(Labels) :
                i < j => CalendarNumber(Labels[i]) < CalendarNumber(Labels[j])

\* A monthly aggregation of rows of two years whose months are not in calendar
\* order in the table, with a mean in at least two buckets.
C7_Witness ==
    /\ agg_df.x_col = "month"
    /\ \E i, j \in 1..Len(filtered_df.rows) :
            /\ i < j
            /\ dt_month(filtered_df.rows[i]["Date"]) > dt_month(filtered_df.rows[j]["Date"])
            /\ filtered_df.rows[i]["year"] # filtered_df.rows[j]["year"]
    /\ \E i, j \in 1..Len(agg_df.rows) :
            i # j /\ agg_df.rows[i].mean # NaN /\ agg_df.rows[j].mean # NaN

\* The bucket a row of the aggregated table falls in.
BucketOf(row) == IF agg_df.x_col = "month" THEN row["month"] ELSE row["year"]

\* The rows that contribute to a bucket's mean: in the bucket, the chosen column
\* not missing.
Contributors(label) ==
    {r \in 1..Len(filtered_df.rows) :
        /\ BucketOf(filtered_df.rows[r]) = label
        /\ filtered_df.rows[r][column] # NaN}

\* C8: a bucket is emitted only if some row contributes to its mean, so no
\* bucket has an undefined mean, and every emitted bucket is a bucket of the data.
C8_NoBucketWithoutContributor ==
    agg_df.x_col # "" =>
        \A i \in 1..Len(agg_df.rows) :
            /\ agg_df.rows[i].mean # NaN
            /\ Contributors(agg_df.rows[i].label) # {}

\* C9: the buckets of a yearly aggregation are the years of the rows, strictly
\* ascending, so none twice.
C9_YearlyAscendingNoDuplicates ==
    agg_df.x_col = "year" =>
        /\ \A i \in 1..Len(Labels) :
                \E r \in 1..Len(filtered_df.rows) :
                    Labels[i] = dt_year(filtered_df.rows[r]["Date"])
        /\ \A i, j \in 1..Len(Labels) : i < j => Labels[i] < Labels[j]

\* A yearly aggregation over both tables, a year in both of them, the years not
\* ascending in the table, two buckets.
C9_Witness ==
    /\ agg_df.x_col = "year"
    /\ dataset = "All"
    /\ Len(agg_df.rows) = 2
    /\ \E i, j \in 1..Len(filtered_df.rows) :
            /\ i < j
            /\ filtered_df.rows[i]["year"] > filtered_df.rows[j]["year"]
    /\ \E i, j \in 1..Len(filtered_df.rows) :
            /\ filtered_df.rows[i]["source"] = "financial"
            /\ filtered_df.rows[j]["source"] = "commodities"
            /\ filtered_df.rows[i]["year"] = filtered_df.rows[j]["year"]

RECURSIVE SumOver(_)
SumOver(S) ==
    IF S = {} THEN 0
    ELSE LET r == CHOOSE x \in S : TRUE
         IN  filtered_df.rows[r][column][1] + SumOver(S \ {r})

\* C10: the value of every emitted bucket is the arithmetic mean of the chosen
\* column over the rows of the bucket whose entry is not missing: their sum over
\* their number.
C10_BucketValueIsMean ==
    agg_df.x_col # "" =>
        \A i \in 1..Len(agg_df.rows) :
            /\ Contributors(agg_df.rows[i].label) # {}
            /\ agg_df.rows[i].mean
                    = <<SumOver(Contributors(agg_df.rows[i].label)),
                        Cardinality(Contributors(agg_df.rows[i].label))>>

\* Where some row contributes, the value is the mean of the contributors; the
\* only other value is NaN, on a bucket without a contributor.
MeanOfContributors ==
    agg_df.x_col # "" =>
        \A i \in 1..Len(agg_df.rows) :
            IF Contributors(agg_df.rows[i].label) = {}
            THEN agg_df.rows[i].mean = NaN
            ELSE agg_df.rows[i].mean
                    = <<SumOver(Contributors(agg_df.rows[i].label)),
                        Cardinality(Contributors(agg_df.rows[i].label))>>

\* With every file absent or well formed, a file is read once.
ReadOnceWhenLoaded == AllLoaded => \A l \in LoaderSet : reads[l] <= 1

\* The table a loader returns for the file on disk
Origin(l) == Load(l, file[l]).value

\* row is the r-th row of the origin table, every cell of it, under the tag
CarriesRow(row, origin, r, tag) ==
    /\ row["source"] = tag
    /\ \A c \in ColumnSet(origin) : row[c] = origin.rows[r][c]

\* How many rows of a table the selected dataset asks for
Wanted(l, names) == IF dataset \in names THEN Len(Origin(l).rows) ELSE 0

\* C11: the table the Filtered Visualizations page aggregates holds, for dataset
\* All, every row of the financial table tagged 'financial' followed by every
\* row of the commodities table tagged 'commodities'; for Financial exactly the
\* former, for Commodities exactly the latter; every cell of a row is its
\* origin's.
C11_SourceTagsAndDatasetFilter ==
    FiltersShown =>
        /\ Len(filtered_df.rows)
                = Wanted("financial", {"All", "Financial"})
                    + Wanted("commodities", {"All", "Commodities"})
        /\ \A i \in 1..Wanted("financial", {"All", "Financial"}) :
                CarriesRow(filtered_df.rows[i], Origin("financial"), i, "financial")
        /\ \A i \in 1..Wanted("commodities", {"All", "Commodities"}) :
                CarriesRow(filtered_df.rows[Wanted("financial", {"All", "Financial"}) + i],
                           Origin("commodities"), i, "commodities")

\* Both tables have rows and the Financial dataset is selected.
C11_Witness ==
    /\ FiltersShown
    /\ dataset = "Financial"
    /\ ~IsEmpty(Origin("financial"))
    /\ ~IsEmpty(Origin("commodities"))
    /\ Len(filtered_df.rows) = Len(Origin("financial").rows)

\* The accepted names of the score column, most preferred first
AliasPriority == <<"sentiment_score", "sentiment", "score", "sentiment score">>

\* The columns of senti.csv, whatever their order
SentimentHeader == {file["sentiment"].columns[k] : k \in 1..Len(file["sentiment"].columns)}

SentimentsShown ==
    /\ selected_page = "sentiments"
    /\ fault.at \notin LoaderFaults
    /\ file["sentiment"].exists
    /\ file["sentiment"].rows # <<>>

\* C12: the score column the News Sentiments page uses is the accepted name of
\* highest priority among the file's columns, wherever the columns stand in
\* the file.
C12_FirstAliasInPriorityOrder ==
    SentimentsShown =>
        \A i \in 1..Len(AliasPriority) :
            (AliasPriority[i] \in SentimentHeader
                /\ \A j \in 1..(i - 1) : AliasPriority[j] \notin SentimentHeader)
            => sentiment_col = AliasPriority[i]

\* The file has 'score' before 'sentiment'; the page uses 'sentiment'.
C12_Witness ==
    /\ SentimentsShown
    /\ file["sentiment"].columns = <<"score", "sentiment">>
    /\ sentiment_col = "sentiment"
    /\ "histogram" \in rendered

NoAliasInFile == \A i \in 1..Len(AliasPriority) : AliasPriority[i] \notin SentimentHeader

\* C13: when a non-empty senti.csv has none of the four accepted names, the News
\* Sentiments page shows one error that lists the file's column names, draws no
\* histogram, no cards and no pie chart, and ends without an exception.
C13_NoAliasReportsColumns ==
    (SentimentsShown /\ NoAliasInFile) =>
        /\ st_errors = {"Sentiment column not found. Available columns: "
                            \o join(file["sentiment"].columns)}
        /\ rendered \cap {"histogram", "cards", "pie"} = {}
        /\ fault = NoFault
        /\ sentiment_col = ""

\* senti.csv has the columns headline and date only.
C13_Witness ==
    /\ SentimentsShown
    /\ file["sentiment"].columns = <<"headline", "date">>
    /\ st_errors = {"Sentiment column not found. Available columns: headline, date"}
    /\ rendered = {}

\* text is prefix, then v / unit rounded to k decimals (d is the rounded number
\* in units of the last decimal: nearer to v than half a unit), then suffix
Shows(text, prefix, v, unit, k, suffix) ==
    \E d \in (v \div unit)..((v \div unit) + 1) :
        /\ abs(d * unit - v) * 2 <= unit
        /\ text = prefix \o Fixed(d, k) \o suffix

\* Cards of a value of one of the types show it scaled by its magnitude; cards
\* of a str show the str
DisplayedByMagnitude(types) ==
    /\ card_args.value.type \in types =>
            IF abs(card_args.value.milli) >= 1000000000
            THEN Shows(card.value_display, "$", card_args.value.milli, 100000000, 1, "M")
            ELSE IF abs(card_args.value.milli) >= 1000000
            THEN Shows(card.value_display, "$", card_args.value.milli, 100000, 1, "K")
            ELSE Shows(card.value_display, "", card_args.value.milli, 10, 2, "")
    /\ card_args.value.type = "str" => card.value_display = card_args.value.text

\* C14: a card shows a numeric value v (here in thousandths) as "$", v/1,000,000
\* to one decimal and "M" when |v| >= 1,000,000; else as "$", v/1,000 to one
\* decimal and "K" when |v| >= 1,000; else as v to two decimals; the sign is
\* kept; a str is shown as it is.
C14_ValueFormattedByMagnitude == DisplayedByMagnitude(FloatTypes \cup IntTypes)

\* The same for the numbers that are instances of int or float
PythonNumbersFormattedByMagnitude ==
    DisplayedByMagnitude({"int", "float", "numpy.float64"})

\* The figures of the change text: the absolute delta to two decimals and the
\* absolute percentage to one, the percentage being 0 for a previous value of 0
DeltaText(arrow, delta, previous) ==
    \E d \in (abs(delta) \div 10)..((abs(delta) \div 10) + 1) :
        /\ abs(d * 10 - abs(delta)) * 2 <= 10
        /\ IF previous = 0
           THEN card.change_text = arrow \o " " \o Fixed(d, 2) \o " (0.0%)"
           ELSE \E q \in ((abs(delta) * 1000) \div abs(previous))
                            ..(((abs(delta) * 1000) \div abs(previous)) + 1) :
                    /\ abs(q * abs(previous) - abs(delta) * 1000) * 2 <= abs(previous)
                    /\ card.change_text
                            = arrow \o " " \o Fixed(d, 2) \o " (" \o FixedPlain(q, 1) \o "%)"

\* C15: with a previous value, the card points up exactly when value - previous
\* >= 0 and down otherwise, and its change text is the direction, the absolute
\* delta and the absolute percentage; without one, the card has no change text
\* and the neutral colour.
C15_DirectionAndDeltaText ==
    card_args # NoCall =>
        IF card_args.previous # None
        THEN IF card_args.latest.milli - card_args.previous.milli >= 0
             THEN /\ card.arrow = "up"
                  /\ card.change_color = "positive"
                  /\ DeltaText("up", card_args.latest.milli - card_args.previous.milli,
                               card_args.previous.milli)
             ELSE /\ card.arrow = "down"
                  /\ card.change_color = "negative"
                  /\ DeltaText("down", card_args.latest.milli - card_args.previous.milli,
                               card_args.previous.milli)
        ELSE /\ card.arrow = ""
             /\ card.change_color = "neutral"
             /\ card.change_text = ""

\* A value of 100 after a previous value of 100: a zero delta, shown as up.
C15_Witness ==
    /\ card_args.latest = Number("float", 100000)
    /\ card_args.previous = Number("float", 100000)
    /\ card.arrow = "up"
    /\ card.change_text = "up 0.00 (0.0%)"

\* 110 after 100 is "10.00 (10.0%)" up, 90 after 100 is down, 1,500,000 is
\* "$1.5M", 2,500 is "$2.5K", 42.678 is "42.68".
CardExamples ==
    /\ create_metric_card(Number("int", 110000), Number("int", 10000), <<10, 1>>).change_text
            = "up 10.00 (10.0%)"
    /\ create_metric_card(Number("int", 90000), Number("int", -10000), <<-10, 1>>).arrow
            = "down"
    /\ value_display(Number("int", 1500000000)) = "$1.5M"
    /\ value_display(Number("int", 2500000)) = "$2.5K"
    /\ value_display(Number("float", 42678)) = "42.68"
    /\ value_display(Number("float", -999999000)) = "$-1,000.0K"

\* The table behind the dashboard of the selected page
DashboardTable ==
    IF selected_page = "metrics" THEN Origin("financial") ELSE Origin("commodities")

DashboardShown == selected_page \in {"metrics", "commodities"} /\ "cards" \in rendered

\* The measures each dashboard compares with their previous value
ComparedMeasures ==
    IF selected_page = "metrics"
    THEN {"Total Revenue", "Total Assets", "Total Liabilities", "Long Term Debt",
          "Shareholders_Equity"}
    ELSE {"CPI", "GDP", "Oil", "Copper"}

\* C16: for each of revenue, assets, liabilities, debt, equity, CPI, GDP, oil
\* and copper, the percent change is 0 when the previous value is 0 and
\* otherwise (latest - previous) / previous * 100 (missing when a value is
\* missing); a quotient by zero never appears.
C16_PercentChangeGuarded ==
    DashboardShown =>
        /\ DOMAIN changes = ComparedMeasures
        /\ \A c \in DOMAIN changes :
                IF changes[c].prev = <<0>> THEN changes[c].change_pct = <<0, 1>>
                ELSE IF changes[c].latest = NaN \/ changes[c].prev = NaN
                THEN changes[c].change_pct = NaN
                ELSE /\ changes[c].change_pct[2] > 0
                     /\ changes[c].change_pct[1] * changes[c].prev[1]
                            = (changes[c].latest[1] - changes[c].prev[1]) * 100
                                * changes[c].change_pct[2]

\* Total Assets went from 0 to a non-zero value.
C16_Witness ==
    /\ DashboardShown
    /\ selected_page = "metrics"
    /\ changes["Total Assets"].prev = <<0>>
    /\ changes["Total Assets"].latest = <<9>>
    /\ changes["Total Assets"].change_pct = <<0, 1>>

Dates(df) == [r \in 1..Len(df.rows) |-> df.rows[r]["Date"]]

OrderedByDate(df) == \A i, j \in 1..Len(df.rows) : i < j => Dates(df)[i] <= Dates(df)[j]

\* C17: when the table has at least two rows in date order, 'latest' is the
\* measure of a row with the maximum Date and 'previous' the measure of a row
\* whose Date no other row but that one exceeds.
C17_LatestAndPreviousByDate ==
    (DashboardShown /\ Len(DashboardTable.rows) >= 2 /\ OrderedByDate(DashboardTable)) =>
        \E i, j \in 1..Len(DashboardTable.rows) :
            /\ i # j
            /\ \A k \in 1..Len(DashboardTable.rows) :
                    Dates(DashboardTable)[k] <= Dates(DashboardTable)[i]
            /\ \A k \in 1..Len(DashboardTable.rows) \ {i} :
                    Dates(DashboardTable)[k] <= Dates(DashboardTable)[j]
            /\ \A c \in DOMAIN changes :
                    /\ changes[c].latest = DashboardTable.rows[i][c]
                    /\ changes[c].prev = DashboardTable.rows[j][c]

\* The commodities dashboard over two rows, February 2020 then January 2021,
\* with different measures.
C17_Witness ==
    /\ DashboardShown
    /\ selected_page = "commodities"
    /\ Len(DashboardTable.rows) = 2
    /\ Dates(DashboardTable)[1] < Dates(DashboardTable)[2]
    /\ changes["Oil"].latest # changes["Oil"].prev
    /\ changes["Oil"].latest = DashboardTable.rows[2]["Oil"]

\* C19: on the two dashboards, whatever the order of the file's rows, the
\* 'Latest: <date>' label is the date of the last row by position, the row the
\* 'Latest ...' cards take their values from.
C19_LabelAndCardsSameRow ==
    DashboardShown =>
        /\ latest_date = strftime_b_Y(Dates(DashboardTable)[Len(DashboardTable.rows)])
        /\ \A k \in 1..Len(DashboardTable.rows) :
                Dates(DashboardTable)[k] <= Dates(DashboardTable)[Len(DashboardTable.rows)]

\* On a table in date order the label and the cards agree.
LabelAndCardsSameRowWhenOrdered ==
    (DashboardShown /\ OrderedByDate(DashboardTable)) =>
        latest_date = strftime_b_Y(Dates(DashboardTable)[Len(DashboardTable.rows)])

\* The name a column of the file is to have in the loaded table
RenamedTo(c) ==
    CASE c = "Shareholder's Equity" -> "Shareholders_Equity"
      [] c = "CPIAUCSL"             -> "CPI"
      [] c = "WTISPLC"              -> "Oil"
      [] c = "PCOPPUSDM"            -> "Copper"
      [] OTHER                      -> c

OldNames == {"Shareholder's Equity", "CPIAUCSL", "WTISPLC", "PCOPPUSDM"}

\* The table holds the file's columns in the file's order, the four renamed,
\* and every measure of every row as the file has it
LoadedAsRenamed(f, df) ==
    /\ df.columns = [k \in 1..Len(f.columns) |-> RenamedTo(f.columns[k])]
    /\ ColumnSet(df) \cap OldNames = {}
    /\ Len(df.rows) = Len(f.rows)
    /\ \A r \in 1..Len(f.rows) : \A k \in 1..Len(f.columns) :
            f.columns[k] # "Date" => df.rows[r][RenamedTo(f.columns[k])] = f.rows[r][f.columns[k]]

\* C18: a table a loader returned for a file that exists has Shareholders_Equity
\* and no "Shareholder's Equity" (financial), CPI, Oil and Copper and no
\* CPIAUCSL, WTISPLC, PCOPPUSDM (commodities), every other column under its
\* own name, and the values of every column as in the file.
C18_RenamedColumnsOnly ==
    \A l \in {"financial", "commodities"} :
        (cache[l].hit /\ file[l].exists) => LoadedAsRenamed(file[l], cache[l].value)

\* A commodities file with rows has been loaded.
C18_Witness ==
    /\ cache["commodities"].hit
    /\ file["commodities"].exists
    /\ file["commodities"].rows # <<>>
    /\ "WTISPLC" \in {file["commodities"].columns[k] : k \in 1..Len(file["commodities"].columns)}
    /\ "Oil" \in ColumnSet(cache["commodities"].value)

\* What the Filtered Visualizations page shows in a fresh process for the
\* current selection: the tables as the loaders return them for the files
FreshProcess ==
    FilteredPage(Origin("financial"), Origin("commodities"), dataset, column, time_agg,
                 observed)

NoDuplicate(seq) == \A i, j \in 1..Len(seq) : i # j => seq[i] # seq[j]

\* C20: whatever was visited and selected before, the Filtered Visualizations
\* page offers the metric columns and charts the (bucket, mean) rows that a
\* fresh process gives for the same dataset, metric and time aggregation, and
\* no column of the aggregated table occurs twice.
C20_AggregationIdempotent ==
    (selected_page = "filtered_visuals" /\ fault.at \notin LoaderFaults) =>
        /\ numeric_options = FreshProcess.options
        /\ agg_df = FreshProcess.agg
        /\ filtered_df = FreshProcess.filtered
        /\ rendered = FreshProcess.rendered
        /\ NoDuplicate(filtered_df.columns)
        /\ NoDuplicate(numeric_options)

\* The Commodities dataset has been selected, which takes a second run of the
\* page in the same process; the chart has a bucket.
C20_Witness ==
    /\ FiltersShown
    /\ dataset = "Commodities"
    /\ time_agg = "Yearly"
    /\ reads["commodities"] = 1
    /\ agg_df.rows # <<>>
    /\ ~IsEmpty(financial_df)

====
